---- MODULE Spec2Model ----
(***************************************************************************)
(* Presence registry, liveness sweep and message router of the chat        *)
(* backend (src/backend/server.js), as a state machine.  Every socket.io   *)
(* event handler and the setInterval callback is one atomic action: Node   *)
(* runs each callback to completion on a single thread.                    *)
(***************************************************************************)
EXTENDS Integers, Sequences, FiniteSets, TLC

(* ------------------------------ bounds -------------------------------- *)
NumHandles == 3
StartTime == 10000
\* Presence runs.
PresenceJoins == 3
PresenceMsgs == 0
PresenceSweeps == 1
\* Order runs.
OrderJoins == 3
OrderSweeps == 1
\* Router runs.
RouterJoins == 3
RouterMsgs == 1
RouterSweeps == 1
\* Chat runs.
ChatHandles == 2
ChatJoins == 2
ChatMsgs == 3
ChatSweeps == 1
\* Client runs.
ClientJoins == 3
ClientSweeps == 1
\* Liveness runs.
LivenessHandles == 2
LivenessJoins == 2
LivenessMsgs == 0
LivenessSweeps == 4

(* ------------------------- program constants -------------------------- *)
HEARTBEAT_TIMEOUT_MS == 30000
SWEEP_INTERVAL_MS == 10000

\* Granularity of the model clock: two clock steps per sweep period.
TickMs == SWEEP_INTERVAL_MS \div 2

\* socket.id values: opaque, one per physical connection, never reused.
Handles == 1..NumHandles

(* ------------------------------ strings ------------------------------- *)
\* A string is a sequence of one-character strings.
NameA == <<"a">>
NameAB == <<"a", "-", "b">>
NameBAB == <<"b", "-", "a", "-", "b">>
Names == {NameA, NameAB, NameBAB}
Blank == <<" ">>
BlankTab == <<"\t", " ">>
Empty == <<>>
TextHi == <<"h", "i">>
TextYo == <<"y", "o">>
Texts == {TextHi, TextYo}

\* UTF-16 code unit of a character (the order String.prototype.sort uses).
CodeOf(c) ==
    CASE c = "\t" -> 9
      [] c = " " -> 32
      [] c = "-" -> 45
      [] c = "a" -> 97
      [] c = "b" -> 98
      [] c = "h" -> 104
      [] c = "i" -> 105
      [] c = "o" -> 111
      [] c = "y" -> 121

IsWhiteSpace(c) == c \in {" ", "\t"}

RECURSIVE TrimStart(_)
TrimStart(s) ==
    IF s # <<>> /\ IsWhiteSpace(Head(s)) THEN TrimStart(Tail(s)) ELSE s

RECURSIVE TrimEnd(_)
TrimEnd(s) ==
    IF s # <<>> /\ IsWhiteSpace(s[Len(s)])
    THEN TrimEnd(SubSeq(s, 1, Len(s) - 1))
    ELSE s

\* String.prototype.trim
Trim(s) == TrimEnd(TrimStart(s))

\* s < t in code-unit order (the comparison of Array.prototype.sort without
\* a comparator).
RECURSIVE StrLess(_, _)
StrLess(s, t) ==
    IF t = <<>> THEN FALSE
    ELSE IF s = <<>> THEN TRUE
    ELSE IF CodeOf(Head(s)) # CodeOf(Head(t))
         THEN CodeOf(Head(s)) < CodeOf(Head(t))
         ELSE StrLess(Tail(s), Tail(t))

\* [x, y].sort()
SortPair(x, y) == IF StrLess(y, x) THEN <<y, x>> ELSE <<x, y>>

\* [x, y].join('-')
JoinDash(p) == p[1] \o <<"-">> \o p[2]

\* The key without the sort: [u1, u2].join('-')
ConversationKeyUnsorted(u1, u2) == JoinDash(<<u1, u2>>)

\* [u1, u2].sort().join('-')
ConversationKey(u1, u2) == JoinDash(SortPair(u1, u2))

(* ------------------------------- state -------------------------------- *)
VARIABLES
    sock,           \* per handle: "new", "open", "closing" or "closed"
    users,          \* the users Map, in insertion order
    conversations,  \* the conversations Map: key -> sequence of messages
    now,            \* Date.now()
    nextSweep,      \* when the setInterval callback fires next
    nextId,         \* source of fresh uuidv4() values
    emitted,        \* what the last handler emitted, in order
    last,           \* which handler ran last, and how it ended
    inbox,          \* per handle: ids of the userJoined/userLeft deltas received
    nextEv,         \* source of delta ids
    leftCount,      \* per handle: userLeft broadcasts carrying that handle
    sentLog,        \* successful sends: message id and both identities
    clientUsers,    \* per handle: the users state of its App
    clientMessages  \* per handle: the messages state of its App

vars == <<sock, users, conversations, now, nextSweep, nextId, emitted, last,
          inbox, nextEv, leftCount, sentLog, clientUsers, clientMessages>>

(* ------------------------------ users Map ----------------------------- *)
UserIds(us) == {us[i].id : i \in 1..Len(us)}

\* users.has(id)
UsersHas(us, id) == id \in UserIds(us)

\* users.get(id), for an id the Map has
UsersGet(us, id) == us[CHOOSE i \in 1..Len(us) : us[i].id = id]

\* users.set(id, user): a present key keeps its position
UsersSet(us, id, user) ==
    IF UsersHas(us, id)
    THEN [i \in 1..Len(us) |-> IF us[i].id = id THEN user ELSE us[i]]
    ELSE Append(us, user)

\* A delete that leaves the entry in place.
UsersDeleteNothing(us, id) == us

\* users.delete(id)
UsersDelete(us, id) == SelectSeq(us, LAMBDA u : u.id # id)

\* Array.from(users.values())
UsersValues(us) == us

(* ------------------------------ sockets ------------------------------- *)
\* Sockets of the namespace: connected and not yet through _onclose.
Connected(sk) == {h \in Handles : sk[h] \in {"open", "closing"}}

\* io.sockets.sockets.get(id)
SocketsGet(sk, id) == id \in Connected(sk)

Emission(ev, to, data) == [ev |-> ev, to |-> to, data |-> data]

\* io.emit(ev, data)
IoEmit(sk, ev, data) == Emission(ev, Connected(sk), data)

\* A broadcast that does not leave the emitting socket out.
BroadcastEmitToAll(sk, h, ev, data) == Emission(ev, Connected(sk), data)

\* socket.broadcast.emit(ev, data)
BroadcastEmit(sk, h, ev, data) == Emission(ev, Connected(sk) \ {h}, data)

\* socket.emit(ev, data)
SocketEmit(h, ev, data) == Emission(ev, {h}, data)

\* An emit that ignores the room.
IoToEmitAll(sk, room, ev, data) == Emission(ev, Connected(sk), data)

\* io.to(room).emit(ev, data): every socket is alone in the room of its id
IoToEmit(sk, room, ev, data) == Emission(ev, Connected(sk) \cap {room}, data)

(* ------------------------- observers of emits ------------------------- *)
IsDelta(e) == e.ev \in {"userJoined", "userLeft"}

\* Number of deltas among the first n emissions of em.
RECURSIVE DeltasBefore(_, _)
DeltasBefore(em, n) ==
    IF n = 0 THEN 0
    ELSE DeltasBefore(em, n - 1) + (IF IsDelta(em[n]) THEN 1 ELSE 0)

\* A transport that hands the odd handles their deltas newest first.
RECURSIVE DeliverUnordered(_, _, _, _)
DeliverUnordered(ib, em, base, n) ==
    IF n = 0 THEN ib
    ELSE LET prev == DeliverUnordered(ib, em, base, n - 1)
             evid == base + DeltasBefore(em, n - 1)
         IN  IF IsDelta(em[n])
             THEN [h \in Handles |->
                     IF h \in em[n].to
                     THEN (IF h % 2 = 1 THEN <<evid>> \o prev[h] ELSE Append(prev[h], evid))
                     ELSE prev[h]]
             ELSE prev

\* Each connection's channel is ordered: the deltas of em reach the inbox of
\* every target in the order they were emitted.  The k-th delta overall has
\* id base + k - 1.
RECURSIVE Deliver(_, _, _, _)
Deliver(ib, em, base, n) ==
    IF n = 0 THEN ib
    ELSE LET prev == Deliver(ib, em, base, n - 1)
             evid == base + DeltasBefore(em, n - 1)
         IN  IF IsDelta(em[n])
             THEN [h \in Handles |->
                     IF h \in em[n].to THEN Append(prev[h], evid) ELSE prev[h]]
             ELSE prev

\* userLeft emissions of em that carry the user of handle h.
LeftIn(em, h) ==
    Cardinality({i \in 1..Len(em) : em[i].ev = "userLeft" /\ em[i].data.id = h})

\* The handler emits em: the deltas are numbered in the order of emission.
Observe(em) ==
    /\ emitted' = em
    /\ nextEv' = nextEv + DeltasBefore(em, Len(em))
    /\ leftCount' = [h \in Handles |-> leftCount[h] + LeftIn(em, h)]

\* What the connections receive of the handler's deltas, when the run
\* records it.
Receive(track) ==
    inbox' = [h \in Handles |->
                IF h \in track
                THEN Deliver(inbox, emitted', nextEv, Len(emitted'))[h]
                ELSE inbox[h]]

\* newSocket.on('users'): setUsers(usersList.filter(user => user.id !== newSocket.id))
OnUsers(h, list, usersList) == SelectSeq(usersList, LAMBDA user : user.id # h)

\* newSocket.on('userJoined'): if (user.id !== newSocket.id) setUsers(prev => [...prev, user])
OnUserJoined(h, list, user) == IF user.id # h THEN Append(list, user) ELSE list

\* newSocket.on('userLeft'): setUsers(prev => prev.filter(u => u.id !== user.id))
OnUserLeft(h, list, user) == SelectSeq(list, LAMBDA u : u.id # user.id)

\* The users state of the App of handle h once it has handled, in order, the
\* first n emissions of em that were sent to it.
RECURSIVE ClientUsersAfter(_, _, _, _)
ClientUsersAfter(h, list, em, n) ==
    IF n = 0 THEN list
    ELSE LET prev == ClientUsersAfter(h, list, em, n - 1)
             e == em[n]
         IN  IF h \notin e.to THEN prev
             ELSE CASE e.ev = "users" -> OnUsers(h, prev, e.data)
                    [] e.ev = "userJoined" -> OnUserJoined(h, prev, e.data)
                    [] e.ev = "userLeft" -> OnUserLeft(h, prev, e.data)
                    [] OTHER -> prev

\* newSocket.on('newMessage') and newSocket.on('messageSent'):
\* setMessages(prev => [...prev, { ...message, type }])
RECURSIVE ClientMessagesAfter(_, _, _, _)
ClientMessagesAfter(h, list, em, n) ==
    IF n = 0 THEN list
    ELSE LET prev == ClientMessagesAfter(h, list, em, n - 1)
             e == em[n]
         IN  IF h \notin e.to THEN prev
             ELSE CASE e.ev = "newMessage" ->
                           Append(prev, [e.data EXCEPT !.type = "received"])
                    [] e.ev = "messageSent" ->
                           Append(prev, [e.data EXCEPT !.type = "sent"])
                    [] OTHER -> prev

\* The Apps of the handles in clients handle what the handler sent them; the
\* channel of a connection is ordered.
ClientsReceive(clients) ==
    /\ clientUsers' = [h \in Handles |->
                          IF h \in clients
                          THEN ClientUsersAfter(h, clientUsers[h], emitted', Len(emitted'))
                          ELSE clientUsers[h]]
    /\ clientMessages' = [h \in Handles |->
                             IF h \in clients
                             THEN ClientMessagesAfter(h, clientMessages[h], emitted',
                                                      Len(emitted'))
                             ELSE clientMessages[h]]

JoinsSoFar ==
    LET RECURSIVE Sum(_)
        Sum(n) == IF n = 0 THEN 0 ELSE leftCount[n] + Sum(n - 1)
    IN  (nextEv - 1) - Sum(NumHandles)

(* ------------------------------ handlers ------------------------------ *)
Init ==
    /\ sock = [h \in Handles |-> "new"]
    /\ users = <<>>
    /\ conversations = [k \in {} |-> <<>>]
    /\ now = StartTime
    /\ nextSweep = StartTime + SWEEP_INTERVAL_MS
    /\ nextId = 1
    /\ emitted = <<>>
    /\ last = [op |-> "init"]
    /\ inbox = [h \in Handles |-> <<>>]
    /\ nextEv = 1
    /\ leftCount = [h \in Handles |-> 0]
    /\ sentLog = {}
    /\ clientUsers = [h \in Handles |-> <<>>]
    /\ clientMessages = [h \in Handles |-> <<>>]

\* io.on('connection'): ids are fresh, so handles are taken in order.
Connect(h) ==
    /\ sock[h] = "new"
    /\ \A g \in Handles : g < h => sock[g] # "new"
    /\ sock' = [sock EXCEPT ![h] = "open"]
    /\ last' = [op |-> "connection", h |-> h]
    /\ Observe(<<>>)
    /\ UNCHANGED <<users, conversations, now, nextSweep, nextId, sentLog>>

\* Payloads of 'join': with a username, or without the field.
NoUsername == [device |-> <<"a">>]
HasUsername(userData) == "username" \in DOMAIN userData

\* The test without the trim: !userData.username
UsernameMissingNoTrim(userData) ==
    \/ ~HasUsername(userData)
    \/ userData.username = <<>>

\* !userData.username || userData.username.trim() === ''
UsernameMissing(userData) ==
    \/ ~HasUsername(userData)
    \/ userData.username = <<>>
    \/ Trim(userData.username) = <<>>

JoinErrorData == [message |-> "Username is required"]
JoinSuccessData == [message |-> "Successfully joined chat"]

\* The user object of socket.on('join')
NewUser(h, userData, t) == [id |-> h, username |-> userData.username, lastSeen |-> t]

\* socket.on('join')
Join(h, userData) ==
    /\ sock[h] = "open"
    /\ IF UsernameMissing(userData)
       THEN /\ Observe(<<SocketEmit(h, "joinError", JoinErrorData)>>)
            /\ last' = [op |-> "join", h |-> h, ok |-> FALSE, userData |-> userData]
            /\ UNCHANGED users
       ELSE LET user == NewUser(h, userData, now)
                us == UsersSet(users, h, user)
            IN  /\ users' = us
                /\ Observe(<<IoEmit(sock, "users", UsersValues(us)),
                             BroadcastEmit(sock, h, "userJoined", user),
                             SocketEmit(h, "joinSuccess", JoinSuccessData)>>)
                /\ last' = [op |-> "join", h |-> h, ok |-> TRUE, userData |-> userData]
    /\ UNCHANGED <<sock, conversations, now, nextSweep, nextId, sentLog>>

\* The body of socket.on('disconnect'), run for socket h on users Map us once
\* the socket has left the namespace (sockets sk): the new Map and the emits.
OnDisconnect(sk, us, h) ==
    IF UsersHas(us, h)
    THEN LET user == UsersGet(us, h)
             rest == UsersDelete(us, h)
         IN  [users |-> rest,
              emitted |-> <<IoEmit(sk, "users", UsersValues(rest)),
                            BroadcastEmit(sk, h, "userLeft", user)>>,
              removed |-> TRUE]
    ELSE [users |-> us, emitted |-> <<>>, removed |-> FALSE]

\* socket.on('disconnect'): the transport of h closes, or a close the server
\* asked for completes.
Disconnect(h) ==
    /\ sock[h] \in {"open", "closing"}
    /\ LET sk == [sock EXCEPT ![h] = "closed"]
           r == OnDisconnect(sk, users, h)
       IN  /\ sock' = sk
           /\ users' = r.users
           /\ Observe(r.emitted)
           /\ last' = [op |-> "disconnect", h |-> h, ok |-> r.removed]
    /\ UNCHANGED <<conversations, now, nextSweep, nextId, sentLog>>

\* A logout that removes the entry and leaves the socket connected.
LogoutStaysOpen(h, sync) ==
    /\ sock[h] = "open"
    /\ LET had == UsersHas(users, h)
           us == IF had THEN UsersDelete(users, h) ELSE users
           em == IF had
                 THEN <<IoEmit(sock, "users", UsersValues(us)),
                        BroadcastEmit(sock, h, "userLeft", UsersGet(users, h))>>
                 ELSE <<>>
       IN  /\ sock' = sock
           /\ users' = us
           /\ Observe(em)
           /\ last' = [op |-> "logout", h |-> h, ok |-> had, sync |-> sync]
    /\ UNCHANGED <<conversations, now, nextSweep, nextId, sentLog>>

\* socket.on('logout').  socket.disconnect(true) closes the transport: the
\* 'disconnect' event fires inside the call (sync) or once the write buffer
\* has drained (the socket is "closing" until then and reads no more packets).
Logout(h, sync) ==
    /\ sock[h] = "open"
    /\ LET had == UsersHas(users, h)
           us == IF had THEN UsersDelete(users, h) ELSE users
           em == IF had
                 THEN <<IoEmit(sock, "users", UsersValues(us)),
                        BroadcastEmit(sock, h, "userLeft", UsersGet(users, h))>>
                 ELSE <<>>
           sk == [sock EXCEPT ![h] = IF sync THEN "closed" ELSE "closing"]
           r == IF sync THEN OnDisconnect(sk, us, h)
                ELSE [users |-> us, emitted |-> <<>>, removed |-> FALSE]
       IN  /\ sock' = sk
           /\ users' = r.users
           /\ Observe(em \o r.emitted)
           /\ last' = [op |-> "logout", h |-> h, ok |-> had, sync |-> sync]
    /\ UNCHANGED <<conversations, now, nextSweep, nextId, sentLog>>

\* A heartbeat that sets the entry without the test for the user.
HeartbeatUpsert(h) ==
    /\ sock[h] = "open"
    /\ users' = UsersSet(users, h,
                         IF UsersHas(users, h)
                         THEN [UsersGet(users, h) EXCEPT !.lastSeen = now]
                         ELSE [id |-> h, username |-> <<>>, lastSeen |-> now])
    /\ Observe(<<>>)
    /\ last' = [op |-> "heartbeat", h |-> h, ok |-> UsersHas(users, h)]
    /\ UNCHANGED <<sock, conversations, nextSweep, now, nextId, sentLog>>

\* socket.on('heartbeat')
Heartbeat(h) ==
    /\ sock[h] = "open"
    /\ IF UsersHas(users, h)
       THEN users' = UsersSet(users, h, [UsersGet(users, h) EXCEPT !.lastSeen = now])
       ELSE UNCHANGED users
    /\ Observe(<<>>)
    /\ last' = [op |-> "heartbeat", h |-> h, ok |-> UsersHas(users, h)]
    /\ UNCHANGED <<sock, conversations, nextSweep, now, nextId, sentLog>>

(* --------------------------- message router --------------------------- *)
\* new Date().toISOString(): the instant, as text
ToISOString(t) == [iso |-> t]

\* { ...message, type: t }
WithType(m, t) ==
    [k \in DOMAIN m \cup {"type"} |-> IF k = "type" THEN t ELSE m[k]]

\* The message object of socket.on('sendMessage')
NewMessage(uuid, h, sender, messageData, t) ==
    [id |-> uuid,
     senderId |-> h,
     senderName |-> sender.username,
     recipientId |-> messageData.recipientId,
     text |-> messageData.text,
     timestamp |-> ToISOString(t)]

\* A store that puts the message at the head of the conversation (unshift).
ConversationUnshift(conv, key, message) ==
    [k \in DOMAIN conv \cup {key} |->
        IF k = key
        THEN <<message>> \o (IF key \in DOMAIN conv THEN conv[key] ELSE <<>>)
        ELSE conv[k]]

\* A store that sets the conversation anew at every message.
ConversationPushReset(conv, key, message) ==
    [k \in DOMAIN conv \cup {key} |-> IF k = key THEN <<message>> ELSE conv[k]]

\* conversations.has(key) || conversations.set(key, []);
\* conversations.get(key).push(message)
ConversationPush(conv, key, message) ==
    [k \in DOMAIN conv \cup {key} |->
        IF k = key
        THEN (IF key \in DOMAIN conv THEN conv[key] ELSE <<>>) \o <<message>>
        ELSE conv[k]]

\* A router that stores the message before it resolves the recipient.
RouteStoreFirst(sk, us, conv, h, messageData, uuid, t) ==
    IF ~UsersHas(us, h)
    THEN [ok |-> FALSE, why |-> "sender", conversations |-> conv, emitted |-> <<>>,
          sent |-> {}]
    ELSE LET sender == UsersGet(us, h)
             message == NewMessage(uuid, h, sender, messageData, t)
             known == UsersHas(us, messageData.recipientId)
             recipientName == IF known THEN UsersGet(us, messageData.recipientId).username
                              ELSE <<>>
             stored == ConversationPush(conv, ConversationKey(sender.username, recipientName),
                                        message)
         IN  IF ~known
             THEN [ok |-> FALSE, why |-> "recipient", conversations |-> stored,
                   emitted |-> <<>>, sent |-> {}]
             ELSE [ok |-> TRUE, why |-> "none", conversations |-> stored,
                   emitted |-> <<IoToEmit(sk, messageData.recipientId, "newMessage",
                                          WithType(message, "received")),
                                 SocketEmit(h, "messageSent", WithType(message, "sent"))>>,
                   sent |-> {[id |-> uuid, from |-> sender.username, to |-> recipientName]}]

\* A router that delivers to every connection holding the recipient's
\* identity.
RouteByName(sk, us, conv, h, messageData, uuid, t) ==
    IF ~UsersHas(us, h)
    THEN [ok |-> FALSE, why |-> "sender", conversations |-> conv, emitted |-> <<>>,
          sent |-> {}]
    ELSE IF ~UsersHas(us, messageData.recipientId)
    THEN [ok |-> FALSE, why |-> "recipient", conversations |-> conv, emitted |-> <<>>,
          sent |-> {}]
    ELSE LET sender == UsersGet(us, h)
             recipient == UsersGet(us, messageData.recipientId)
             message == NewMessage(uuid, h, sender, messageData, t)
             conversationKey == ConversationKey(sender.username, recipient.username)
             namesakes == {g \in UserIds(us) : UsersGet(us, g).username = recipient.username}
         IN  [ok |-> TRUE, why |-> "none",
              conversations |-> ConversationPush(conv, conversationKey, message),
              emitted |-> <<Emission("newMessage", Connected(sk) \cap namesakes,
                                     WithType(message, "received")),
                            SocketEmit(h, "messageSent", WithType(message, "sent"))>>,
              sent |-> {[id |-> uuid, from |-> sender.username,
                         to |-> recipient.username]}]

\* A router that acknowledges the send before it looks the recipient up.
RouteAckFirst(sk, us, conv, h, messageData, uuid, t) ==
    IF ~UsersHas(us, h)
    THEN [ok |-> FALSE, why |-> "sender", conversations |-> conv, emitted |-> <<>>,
          sent |-> {}]
    ELSE LET sender == UsersGet(us, h)
             message == NewMessage(uuid, h, sender, messageData, t)
             ack == SocketEmit(h, "messageSent", WithType(message, "sent"))
         IN  IF ~UsersHas(us, messageData.recipientId)
             THEN [ok |-> FALSE, why |-> "recipient", conversations |-> conv,
                   emitted |-> <<ack>>, sent |-> {}]
             ELSE LET recipient == UsersGet(us, messageData.recipientId)
                      conversationKey ==
                          ConversationKey(sender.username, recipient.username)
                  IN  [ok |-> TRUE, why |-> "none",
                       conversations |-> ConversationPush(conv, conversationKey, message),
                       emitted |-> <<IoToEmit(sk, messageData.recipientId, "newMessage",
                                              WithType(message, "received")),
                                     ack>>,
                       sent |-> {[id |-> uuid, from |-> sender.username,
                                  to |-> recipient.username]}]

\* What socket.on('sendMessage') does for socket h, given the users Map us,
\* the conversations Map conv, a fresh uuid and the time t: whether the
\* message was routed, the new conversations Map and the emits.
Route(sk, us, conv, h, messageData, uuid, t) ==
    IF ~UsersHas(us, h)
    THEN [ok |-> FALSE, why |-> "sender", conversations |-> conv, emitted |-> <<>>,
          sent |-> {}]
    ELSE IF ~UsersHas(us, messageData.recipientId)
    THEN [ok |-> FALSE, why |-> "recipient", conversations |-> conv, emitted |-> <<>>,
          sent |-> {}]
    ELSE LET sender == UsersGet(us, h)
             recipient == UsersGet(us, messageData.recipientId)
             message == NewMessage(uuid, h, sender, messageData, t)
             conversationKey == ConversationKey(sender.username, recipient.username)
         IN  [ok |-> TRUE, why |-> "none",
              conversations |-> ConversationPush(conv, conversationKey, message),
              emitted |-> <<IoToEmit(sk, messageData.recipientId, "newMessage",
                                     WithType(message, "received")),
                            SocketEmit(h, "messageSent", WithType(message, "sent"))>>,
              sent |-> {[id |-> uuid, from |-> sender.username,
                         to |-> recipient.username]}]

\* socket.on('sendMessage')
SendMessage(h, messageData) ==
    /\ sock[h] = "open"
    /\ LET r == Route(sock, users, conversations, h, messageData, nextId, now)
       IN  /\ conversations' = r.conversations
           /\ nextId' = IF r.ok THEN nextId + 1 ELSE nextId
           /\ Observe(r.emitted)
           /\ last' = [op |-> "sendMessage", h |-> h, ok |-> r.ok, why |-> r.why,
                       to |-> messageData.recipientId]
           /\ sentLog' = sentLog \cup r.sent
    /\ UNCHANGED <<sock, users, now, nextSweep>>

\* GET /api/conversations/:username1/:username2
GetConversation(conv, username1, username2) ==
    LET conversationKey == ConversationKey(username1, username2)
    IN  IF conversationKey \in DOMAIN conv THEN conv[conversationKey] ELSE <<>>

(* --------------------------- liveness sweep --------------------------- *)
\* A staleness test that is not strict: now - user.lastSeen >= timeout
IsStaleAtTimeout(sk, user, t) ==
    \/ user.lastSeen = 0
    \/ t - user.lastSeen >= HEARTBEAT_TIMEOUT_MS
    \/ ~SocketsGet(sk, user.id)

\* A staleness test against the sweep period instead of the timeout.
IsStaleAfterInterval(sk, user, t) ==
    \/ user.lastSeen = 0
    \/ t - user.lastSeen > SWEEP_INTERVAL_MS
    \/ ~SocketsGet(sk, user.id)

\* isStale of the setInterval callback
IsStale(sk, user, t) ==
    \/ user.lastSeen = 0
    \/ t - user.lastSeen > HEARTBEAT_TIMEOUT_MS
    \/ ~SocketsGet(sk, user.id)

\* A sweep that sends the snapshot it took before the loop.
SweepEmitsStale(sk, before, after) ==
    IF Len(after) < Len(before)
    THEN <<IoEmit(sk, "users", UsersValues(before))>>
    ELSE <<>>

\* if (changed) io.emit('users', ...): before and after are the users Map
\* before and after the loop, sk the sockets after it.
SweepEmits(sk, before, after) ==
    IF Len(after) < Len(before)
    THEN <<IoEmit(sk, "users", UsersValues(after))>>
    ELSE <<>>

\* A sweep that stops at the first stale entry it deletes.
SweepFirstOnly(syncSet) ==
    /\ now >= nextSweep
    /\ LET allStale == SelectSeq(users, LAMBDA u : IsStale(sock, u, now))
           stale == IF allStale = <<>> THEN <<>> ELSE <<Head(allStale)>>
           staleIds == UserIds(stale)
           us == SelectSeq(users, LAMBDA u : u.id \notin staleIds)
           sk == [h \in Handles |->
                    IF h \in staleIds /\ SocketsGet(sock, h)
                    THEN (IF h \in syncSet THEN "closed" ELSE "closing")
                    ELSE sock[h]]
       IN  /\ syncSet \subseteq staleIds \cap Connected(sock)
           /\ users' = us
           /\ sock' = sk
           /\ Observe(SweepEmits(sk, users, us))
           /\ last' = [op |-> "sweep", removed |-> stale, at |-> now]
    /\ nextSweep' = now + SWEEP_INTERVAL_MS
    /\ UNCHANGED <<conversations, now, nextId, sentLog>>

\* The setInterval callback.  Every stale entry is deleted and its socket, if
\* there is one, is told to disconnect; for the sockets in syncSet the
\* 'disconnect' event fires inside that call, the others are left "closing".
Sweep(syncSet) ==
    /\ now >= nextSweep
    /\ LET stale == SelectSeq(users, LAMBDA u : IsStale(sock, u, now))
           staleIds == UserIds(stale)
           us == SelectSeq(users, LAMBDA u : ~IsStale(sock, u, now))
           sk == [h \in Handles |->
                    IF h \in staleIds /\ SocketsGet(sock, h)
                    THEN (IF h \in syncSet THEN "closed" ELSE "closing")
                    ELSE sock[h]]
       IN  /\ syncSet \subseteq staleIds \cap Connected(sock)
           /\ users' = us
           /\ sock' = sk
           /\ Observe(SweepEmits(sk, users, us))
           /\ last' = [op |-> "sweep", removed |-> stale, at |-> now]
    /\ nextSweep' = now + SWEEP_INTERVAL_MS
    /\ UNCHANGED <<conversations, now, nextId, sentLog>>

\* Time passes.
Tick(d) ==
    /\ now' = now + d
    /\ last' = [op |-> "tick"]
    /\ Observe(<<>>)
    /\ UNCHANGED <<sock, users, conversations, nextSweep, nextId, sentLog>>

\* The events the server can be given, with the inputs drawn from the sets
\* of in: handles hs, 'join' payloads jp, 'sendMessage' payloads mp and clock
\* steps dt; at most mj successful joins, mm messages and time up to
\* StartTime + ms; the handles of track record the deltas they receive and the
\* Apps of the handles of clients are followed.  The
\* sweep timer never fires early; unless late, it fires on time.  sync tells
\* whether a close the server asks for completes inside the call (TRUE),
\* later (FALSE) or either way.
DoConnect(in) ==
    \E h \in in.hs : Connect(h) /\ Receive(in.track) /\ ClientsReceive(in.clients)

DoJoin(in) ==
    \E h \in in.hs, userData \in in.jp :
        /\ Join(h, userData)
        /\ JoinsSoFar' <= in.mj
        /\ Receive(in.track) /\ ClientsReceive(in.clients)

DoLogout(in) ==
    \E h \in in.hs, sync \in in.sync :
        Logout(h, sync) /\ Receive(in.track) /\ ClientsReceive(in.clients)

DoHeartbeat(in) ==
    \E h \in in.hs : Heartbeat(h) /\ Receive(in.track) /\ ClientsReceive(in.clients)

DoSendMessage(in) ==
    \E h \in in.hs, messageData \in in.mp :
        /\ SendMessage(h, messageData)
        /\ nextId' <= in.mm + 1
        /\ Receive(in.track) /\ ClientsReceive(in.clients)

DoDisconnect(in) ==
    \E h \in in.hs : Disconnect(h) /\ Receive(in.track) /\ ClientsReceive(in.clients)

DoSweep(in) ==
    \E syncSet \in SUBSET in.hs :
        /\ Sweep(syncSet)
        /\ \A h \in in.hs :
              sock'[h] # sock[h] => (sock'[h] = "closed") \in in.sync
        /\ Receive(in.track) /\ ClientsReceive(in.clients)

DoTick(in) ==
    \E d \in in.dt :
        /\ Tick(d)
        /\ in.late \/ now' <= nextSweep
        /\ now' <= StartTime + in.ms
        /\ Receive(in.track) /\ ClientsReceive(in.clients)

NextOver(in) ==
    \/ DoConnect(in)
    \/ DoJoin(in)
    \/ DoLogout(in)
    \/ DoHeartbeat(in)
    \/ DoSendMessage(in)
    \/ DoDisconnect(in)
    \/ DoSweep(in)
    \/ DoTick(in)

(* --------------------------- specifications --------------------------- *)
\* A clock step after which a sweep finds whoever was last seen before it
\* stale.
LateStep == HEARTBEAT_TIMEOUT_MS + SWEEP_INTERVAL_MS

JoinsOf(ns) == {[username |-> n] : n \in ns}
SendsTo(hs, ts) == [recipientId : hs, text : ts]

\* Presence runs: three handles joining and leaving, and a sweep that comes
\* late enough to evict whoever was last seen before the clock step.
PresenceIn ==
    [hs |-> Handles,
     jp |-> JoinsOf({NameA, NameBAB, BlankTab}) \cup {NoUsername},
     mp |-> SendsTo(Handles, {TextHi}),
     dt |-> {LateStep},
     mj |-> PresenceJoins, mm |-> PresenceMsgs, ms |-> PresenceSweeps * LateStep,
     sync |-> BOOLEAN, late |-> TRUE, track |-> {}, clients |-> {}]
Next == NextOver(PresenceIn)
Spec == Init /\ [][Next]_vars

\* Order runs: the joins, leaves and sweeps of three handles, every handle
\* recording the deltas it is sent.
OrderIn ==
    [hs |-> Handles,
     jp |-> JoinsOf({NameA}),
     mp |-> {},
     dt |-> {LateStep},
     mj |-> OrderJoins, mm |-> 0, ms |-> OrderSweeps * LateStep,
     sync |-> BOOLEAN, late |-> TRUE, track |-> Handles, clients |-> {}]
NextOrder ==
    \/ DoConnect(OrderIn)
    \/ DoJoin(OrderIn)
    \/ DoLogout(OrderIn)
    \/ DoDisconnect(OrderIn)
    \/ DoSweep(OrderIn)
    \/ DoTick(OrderIn)
SpecOrder == Init /\ [][NextOrder]_vars

\* Router runs: three handles, messages, and a sweep that comes late enough
\* to evict whoever joined before the clock step; closes complete at once.
RouterIn ==
    [hs |-> Handles,
     jp |-> JoinsOf({NameA, NameBAB}),
     mp |-> SendsTo(Handles, {TextHi}),
     dt |-> {LateStep},
     mj |-> RouterJoins, mm |-> RouterMsgs, ms |-> RouterSweeps * LateStep,
     sync |-> {TRUE}, late |-> TRUE, track |-> {}, clients |-> {}]
NextRouter ==
    \/ DoConnect(RouterIn)
    \/ DoJoin(RouterIn)
    \/ DoLogout(RouterIn)
    \/ DoSendMessage(RouterIn)
    \/ DoDisconnect(RouterIn)
    \/ DoSweep(RouterIn)
    \/ DoTick(RouterIn)
SpecRouter == Init /\ [][NextRouter]_vars

\* Liveness runs: two handles, a clock fine and long enough for the sweep to
\* evict.
LivenessIn ==
    [hs |-> 1..LivenessHandles,
     jp |-> JoinsOf({NameA, Blank}),
     mp |-> SendsTo(1..LivenessHandles, {TextHi}),
     dt |-> {TickMs},
     mj |-> LivenessJoins, mm |-> LivenessMsgs, ms |-> LivenessSweeps * SWEEP_INTERVAL_MS,
     sync |-> BOOLEAN, late |-> FALSE, track |-> {}, clients |-> {}]
NextLiveness == NextOver(LivenessIn)
SpecLiveness == Init /\ [][NextLiveness]_vars

\* Chat runs: two handles under two identities exchanging several messages,
\* their Apps followed, with a late sweep; closes complete at once.
ChatIn ==
    [hs |-> 1..ChatHandles,
     jp |-> JoinsOf({NameA, NameBAB}),
     mp |-> SendsTo(1..ChatHandles, {TextHi}),
     dt |-> {LateStep},
     mj |-> ChatJoins, mm |-> ChatMsgs, ms |-> ChatSweeps * LateStep,
     sync |-> {TRUE}, late |-> TRUE, track |-> {}, clients |-> 1..ChatHandles]
NextChat == NextOver(ChatIn)
SpecChat == Init /\ [][NextChat]_vars

\* Client runs: the joins, leaves and sweeps of three handles, the App of
\* every handle following what the server sends it.
ClientIn ==
    [hs |-> Handles,
     jp |-> JoinsOf({NameA}),
     mp |-> {},
     dt |-> {LateStep},
     mj |-> ClientJoins, mm |-> 0, ms |-> ClientSweeps * LateStep,
     sync |-> BOOLEAN, late |-> TRUE, track |-> {}, clients |-> Handles]
NextClient ==
    \/ DoConnect(ClientIn)
    \/ DoJoin(ClientIn)
    \/ DoLogout(ClientIn)
    \/ DoDisconnect(ClientIn)
    \/ DoSweep(ClientIn)
    \/ DoTick(ClientIn)
SpecClient == Init /\ [][NextClient]_vars

(* ------------------------------- claims ------------------------------- *)
\* All the messages the store holds.
StoredMessages ==
    UNION {{conversations[k][i] : i \in 1..Len(conversations[k])} :
              k \in DOMAIN conversations}

RECURSIVE StoredCount(_)
StoredCount(keys) ==
    IF keys = {} THEN 0
    ELSE LET k == CHOOSE x \in keys : TRUE
         IN  Len(conversations[k]) + StoredCount(keys \ {k})

\* The emissions of the last handler that are of kind ev.
EmittedOf(ev) == {i \in 1..Len(emitted) : emitted[i].ev = ev}

SameMessage(m1, m2) ==
    /\ m1.id = m2.id
    /\ m1.text = m2.text
    /\ m1.timestamp = m2.timestamp

\* C1: a sendMessage from a handle in the registry to a handle in the registry
\* appends exactly one message to the store (the store holds one message per
\* routed send, and the newest is the one just routed), pushes exactly one
\* newMessage tagged received to the recipient handle only and exactly one
\* messageSent tagged sent to the sender handle only, and the two copies and
\* the stored record carry the same id, text and timestamp.
C1_RoundTrip ==
    /\ StoredCount(DOMAIN conversations) = nextId - 1
    /\ Cardinality(StoredMessages) = nextId - 1
    /\ (last.op = "sendMessage" /\ last.ok) =>
          /\ Len(emitted) = 2
          /\ \E i, j \in 1..2 :
                LET received == emitted[i]
                    sent == emitted[j]
                IN  /\ received.ev = "newMessage" /\ sent.ev = "messageSent"
                    /\ received.data.type = "received" /\ sent.data.type = "sent"
                    /\ UsersHas(users, last.h)
                    /\ UsersHas(users, sent.data.recipientId)
                    /\ received.to = {sent.data.recipientId}
                    /\ sent.to = {last.h}
                    /\ sent.data.id = nextId - 1
                    /\ SameMessage(received.data, sent.data)
                    /\ Cardinality({m \in StoredMessages : m.id = sent.data.id}) = 1
                    /\ \A m \in StoredMessages :
                          m.id = sent.data.id => SameMessage(m, sent.data)

\* A send between two different handles has been routed.
C1_Witness ==
    /\ last.op = "sendMessage" /\ last.ok
    /\ emitted[2].data.recipientId # last.h
    /\ Cardinality(Connected(sock)) = NumHandles

\* C2: every message routed between identities A and B is in the history
\* returned for (A,B) and in the one returned for (B,A), and the two are the
\* same sequence, whatever joins, sends, logouts, disconnects, sweeps and
\* re-joins came in between.
C2_Durable ==
    \A s \in sentLog :
        LET ab == GetConversation(conversations, s.from, s.to)
            ba == GetConversation(conversations, s.to, s.from)
        IN  /\ ab = ba
            /\ \E i \in 1..Len(ab) : ab[i].id = s.id

\* A message went from the later-sorting identity to the earlier one, the
\* sweep has since evicted the registry, and another handle has re-joined
\* under the sender's identity.
C2_Witness ==
    \E s \in sentLog, m \in StoredMessages :
        /\ m.id = s.id
        /\ StrLess(s.to, s.from)
        /\ ~UsersHas(users, m.senderId)
        /\ ~UsersHas(users, m.recipientId)
        /\ sock[m.recipientId] = "closed"
        /\ now > StartTime
        /\ \E i \in 1..Len(users) : users[i].username = s.from

\* C3: logout and disconnect events on a joined handle, in any sequence,
\* produce exactly one userLeft broadcast for it: the count is one right after
\* the event that removed the entry and is never more than one.
C3_OneUserLeft ==
    /\ \A h \in Handles : leftCount[h] <= 1
    /\ (last.op \in {"logout", "disconnect"} /\ last.ok) => leftCount[last.h] = 1
    /\ (last.op \in {"logout", "disconnect"} /\ ~last.ok) => emitted = <<>>

\* The disconnect that a logout triggered has run, after the logout's userLeft.
C3_Witness ==
    /\ last.op = "disconnect" /\ ~last.ok
    /\ leftCount[last.h] = 1

Staleness(user, t) == t - user.lastSeen

\* C5 as claimed: the sweep evicts at a staleness in [timeout, timeout +
\* sweep interval): what a sweep removes has a staleness in that interval, and
\* what it leaves has a staleness below the timeout.
C5_Original ==
    last.op = "sweep" =>
        /\ \A i \in 1..Len(last.removed) :
              /\ Staleness(last.removed[i], last.at) >= HEARTBEAT_TIMEOUT_MS
              /\ Staleness(last.removed[i], last.at)
                     < HEARTBEAT_TIMEOUT_MS + SWEEP_INTERVAL_MS
        /\ \A i \in 1..Len(users) :
              Staleness(users[i], now) < HEARTBEAT_TIMEOUT_MS

\* C5 as the code has it, the sweep firing every 10000 ms on time: the sweep
\* evicts at a staleness in (timeout, timeout + sweep interval], it leaves
\* every entry whose staleness is at most the timeout, and no entry is ever in
\* the registry at a staleness above timeout + sweep interval.
C5_EvictionWindow ==
    /\ last.op = "sweep" =>
          /\ \A i \in 1..Len(last.removed) :
                /\ Staleness(last.removed[i], last.at) > HEARTBEAT_TIMEOUT_MS
                /\ Staleness(last.removed[i], last.at)
                       <= HEARTBEAT_TIMEOUT_MS + SWEEP_INTERVAL_MS
          /\ \A i \in 1..Len(users) :
                Staleness(users[i], now) <= HEARTBEAT_TIMEOUT_MS
    /\ \A i \in 1..Len(users) :
          Staleness(users[i], now) <= HEARTBEAT_TIMEOUT_MS + SWEEP_INTERVAL_MS

\* A sweep has evicted an entry at a staleness of exactly timeout + sweep
\* interval, having left it at a staleness of exactly the timeout.
C5_Witness ==
    /\ last.op = "sweep"
    /\ \E i \in 1..Len(last.removed) :
          Staleness(last.removed[i], last.at) = HEARTBEAT_TIMEOUT_MS + SWEEP_INTERVAL_MS

IsBlankIdentity(userData) ==
    \/ ~HasUsername(userData)
    \/ \A i \in 1..Len(userData.username) : IsWhiteSpace(userData.username[i])

Seen(h) == {inbox[h][i] : i \in 1..Len(inbox[h])}

Pos(seq, x) == CHOOSE i \in 1..Len(seq) : seq[i] = x

C9_JoinBroadcasts ==
    (last.op = "join" /\ last.ok) =>
        LET h == last.h
            user == [id |-> h, username |-> last.userData.username, lastSeen |-> now]
        IN  /\ UsersHas(users, h)
            /\ UsersGet(users, h) = user
            /\ Len(emitted) = 3
            /\ \E i, j, k \in 1..3 :
                  /\ emitted[i].ev = "users"
                  /\ emitted[i].to = Connected(sock)
                  /\ h \in emitted[i].to
                  /\ emitted[i].data = users
                  /\ emitted[j].ev = "userJoined"
                  /\ emitted[j].to = Connected(sock) \ {h}
                  /\ emitted[j].data = user
                  /\ emitted[k].ev = "joinSuccess"
                  /\ emitted[k].to = {h}
                  /\ DOMAIN emitted[k].data = {"message"}

\* A third handle has joined while two others are connected and joined.
C9_Witness ==
    /\ last.op = "join"
    /\ last.ok
    /\ Len(users) = NumHandles
    /\ Cardinality(Connected(sock)) = NumHandles

\* C10: once a handle has a registry entry with identity n, every later entry
\* of that handle has identity n, whatever joins the connection sends.
C10_IdentityImmutable ==
    [][\A h \in Handles :
          (UsersHas(users, h) /\ UsersHas(users', h)) =>
              UsersGet(users', h).username = UsersGet(users, h).username]_vars

\* C11: a heartbeat from a handle with a registry entry changes that entry's
\* lastSeen to now and nothing else in the registry; a heartbeat from a handle
\* with no entry leaves the registry as it was, without an entry for the
\* handle; either way nothing is emitted and the sockets and the store are as
\* before.
C11_HeartbeatTouch ==
    [][last'.op = "heartbeat" =>
          LET h == last'.h
          IN  /\ emitted' = <<>>
              /\ sock' = sock
              /\ conversations' = conversations
              /\ UserIds(users') = UserIds(users)
              /\ Len(users') = Len(users)
              /\ \A i \in 1..Len(users) :
                    users'[i] = IF users[i].id = h
                                THEN [users[i] EXCEPT !.lastSeen = now]
                                ELSE users[i]
              /\ UsersHas(users, h) = last'.ok]_vars

\* A joined handle has sent a heartbeat later than its join, while another
\* entry keeps an older lastSeen.
C11_Witness ==
    /\ last.op = "heartbeat"
    /\ last.ok
    /\ UsersGet(users, last.h).lastSeen = now
    /\ now >= StartTime + HEARTBEAT_TIMEOUT_MS
    /\ \E i \in 1..Len(users) : users[i].id # last.h /\ users[i].lastSeen < now

\* C12: a message routed between identities A and B is in no history but the
\* one of the unordered pair {A,B}: for every pair of identities {C,D} other
\* than {A,B}, the history returned for (C,D) does not hold it.
C12_PairIsolation ==
    \A s \in sentLog, c \in Names, d \in Names :
        {c, d} # {s.from, s.to} =>
            LET cd == GetConversation(conversations, c, d)
            IN  \A i \in 1..Len(cd) : cd[i].id # s.id

\* Where the App of handle h holds the copy of message id it was pushed as
\* newMessage.
ReceivedAt(h, id) ==
    {i \in 1..Len(clientMessages[h]) :
        clientMessages[h][i].id = id /\ clientMessages[h][i].type = "received"}

\* Where conversation k holds message id.
StoredAt(k, id) == {i \in 1..Len(conversations[k]) : conversations[k][i].id = id}

\* C13: of two messages one sender handle sent to one recipient handle, ids
\* being given out in the order of the sends, the earlier is received first
\* by the recipient (each exactly once) and stands first in whichever stored
\* conversation holds both, whatever other sends came in between.
C13_SenderOrder ==
    \A a \in StoredMessages, b \in StoredMessages :
        (a.senderId = b.senderId /\ a.recipientId = b.recipientId /\ a.id < b.id) =>
            /\ Cardinality(ReceivedAt(a.recipientId, a.id)) = 1
            /\ Cardinality(ReceivedAt(b.recipientId, b.id)) = 1
            /\ \A i \in ReceivedAt(a.recipientId, a.id),
                  j \in ReceivedAt(b.recipientId, b.id) : i < j
            /\ \A k \in DOMAIN conversations :
                  \A i \in StoredAt(k, a.id), j \in StoredAt(k, b.id) : i < j

\* One handle has sent two messages to another, a message of another sender
\* to the same recipient came in between, and one conversation holds all
\* three.
C13_Witness ==
    \E k \in DOMAIN conversations :
        \E i, j, l \in 1..Len(conversations[k]) :
            LET a == conversations[k][i]
                x == conversations[k][j]
                b == conversations[k][l]
            IN  /\ a.id < x.id /\ x.id < b.id
                /\ a.senderId = b.senderId
                /\ a.senderId # x.senderId
                /\ a.senderId # a.recipientId
                /\ a.recipientId = b.recipientId
                /\ a.recipientId = x.recipientId

\* The stored sequence of conversation k in store conv, empty if there is none.
History(conv, k) == IF k \in DOMAIN conv THEN conv[k] ELSE <<>>

\* C14: in every step each conversation's stored sequence is as before or is
\* the one before with exactly one message more at its end, no conversation
\* goes away, at most one conversation changes, and only a sendMessage
\* changes any.
C14_AppendOnly ==
    [][/\ DOMAIN conversations \subseteq DOMAIN conversations'
       /\ \A k \in DOMAIN conversations' :
             LET old == History(conversations, k)
                 new == conversations'[k]
             IN  \/ new = old
                 \/ /\ Len(new) = Len(old) + 1
                    /\ SubSeq(new, 1, Len(old)) = old
       /\ Cardinality({k \in DOMAIN conversations' :
                          conversations'[k] # History(conversations, k)}) <= 1
       /\ last'.op # "sendMessage" => conversations' = conversations]_vars

\* A conversation of three messages is still in the store after a party to it
\* has disconnected and the sweep has run.
C14_Witness ==
    /\ last.op = "sweep"
    /\ \E k \in DOMAIN conversations :
          /\ Len(conversations[k]) = ChatMsgs
          /\ \E i \in 1..Len(conversations[k]) :
                sock[conversations[k][i].senderId] = "closed"

\* The entries of the registry a sweep at the present instant finds stale:
\* last seen more than the timeout ago, or without a socket in the namespace.
Overdue ==
    {i \in 1..Len(users) :
        \/ Staleness(users[i], now) > HEARTBEAT_TIMEOUT_MS
        \/ sock[users[i].id] \notin {"open", "closing"}}

\* C15: a sweep that finds no stale entry leaves the registry and the sockets
\* as they were and emits nothing; a sweep that finds stale entries removes
\* every one of them and no other entry, and emits exactly one users
\* snapshot, the registry after the removals, which holds none of the removed
\* handles.
C15_SweepAllOrNothing ==
    [][last'.op = "sweep" =>
          LET gone == {users[i].id : i \in Overdue}
          IN  IF gone = {}
              THEN /\ users' = users
                   /\ sock' = sock
                   /\ emitted' = <<>>
              ELSE /\ UserIds(users') = UserIds(users) \ gone
                   /\ \A j \in 1..Len(users') : UsersGet(users, users'[j].id) = users'[j]
                   /\ Len(users') = Cardinality(UserIds(users'))
                   /\ Len(emitted') = 1
                   /\ emitted'[1].ev = "users"
                   /\ emitted'[1].data = users'
                   /\ \A j \in 1..Len(emitted'[1].data) :
                         emitted'[1].data[j].id \notin gone]_vars

\* One sweep has removed two entries.
C15_Witness ==
    /\ last.op = "sweep"
    /\ Len(last.removed) = LivenessHandles
    /\ users = <<>>
    /\ Len(emitted) = 1

\* The handles, other than h, whose registry entry holds the identity of h's.
Namesakes(h) ==
    {g \in UserIds(users) \ {h} :
        UsersGet(users, g).username = UsersGet(users, h).username}

\* C16: a join with an identity that is not blank succeeds and enters that
\* identity for the handle, whoever else holds it; a routed sendMessage
\* pushes newMessage to the handle it is addressed to and to no other, and
\* nothing at all to a third connection.
C16_ByHandle ==
    /\ (last.op = "join" /\ ~IsBlankIdentity(last.userData)) =>
          /\ last.ok
          /\ UsersHas(users, last.h)
          /\ UsersGet(users, last.h).username = last.userData.username
    /\ (last.op = "sendMessage" /\ last.ok) =>
          /\ \A i \in EmittedOf("newMessage") : emitted[i].to = {last.to}
          /\ Cardinality(EmittedOf("newMessage")) = 1
          /\ \A i \in 1..Len(emitted) : emitted[i].to \subseteq {last.to, last.h}

\* A message has been routed to a handle while a third connection, joined and
\* open, holds the recipient's identity.
C16_Witness ==
    /\ last.op = "sendMessage"
    /\ last.ok
    /\ last.to # last.h
    /\ \E g \in Namesakes(last.to) : g # last.h /\ sock[g] = "open"

\* C17: a sendMessage whose sender handle or recipient handle has no registry
\* entry is not routed: the store and the registry are after it as they were
\* before, no message id is used up, and nothing is emitted to anyone.
C17_FailedSendInert ==
    [][(/\ last'.op = "sendMessage"
        /\ \/ ~UsersHas(users, last'.h)
           \/ ~UsersHas(users, last'.to)) =>
          /\ ~last'.ok
          /\ conversations' = conversations
          /\ users' = users
          /\ nextId' = nextId
          /\ sentLog' = sentLog
          /\ emitted' = <<>>]_vars

\* A connection that never joined has sent to a joined handle, the store
\* holding a message.
C17_Witness ==
    /\ last.op = "sendMessage"
    /\ last.why = "sender"
    /\ sock[last.h] = "open"
    /\ UsersHas(users, last.to)
    /\ StoredMessages # {}

\* The socket of handle h in sockets sk is being closed or is closed.
IsClosed(sk, h) == sk[h] \in {"closing", "closed"}

\* C18: the removal of a handle's registry entry, by logout, disconnect or
\* sweep, leaves the handle's socket closing or closed; a socket that is
\* closing or closed never opens again; and no step puts an entry for a
\* handle whose socket is closing or closed into the registry.  So a handle
\* whose entry was removed never has an entry again.
C18_ClosedIsTerminal ==
    [][\A h \in Handles :
          /\ (UsersHas(users, h) /\ ~UsersHas(users', h)) => IsClosed(sock', h)
          /\ IsClosed(sock, h) => IsClosed(sock', h)
          /\ sock[h] = "closed" => sock'[h] = "closed"
          /\ IsClosed(sock, h) => ~UsersHas(users', h)]_vars

\* A handle has logged out, its entry removed and its socket still closing,
\* and another handle has joined since.
C18_Witness ==
    /\ last.op = "join"
    /\ last.ok
    /\ \E g \in Handles \ {last.h} :
          /\ leftCount[g] = 1
          /\ sock[g] = "closing"
          /\ ~UsersHas(users, g)

\* The handles in the users state of the App of handle h.
ClientIds(h) == {clientUsers[h][i].id : i \in 1..Len(clientUsers[h])}

\* C19: the App of every connection that is open and joined, having handled
\* all the server has sent it, lists each handle at most once, and the
\* handles it lists are those of the registry other than its own.
C19_ClientView ==
    \A h \in Handles :
        (sock[h] = "open" /\ UsersHas(users, h)) =>
            /\ Len(clientUsers[h]) = Cardinality(ClientIds(h))
            /\ ClientIds(h) = UserIds(users) \ {h}

\* C20: an entry whose socket is open and whose last heartbeat (or join) was
\* handled no more than the timeout ago is in the registry, its socket open,
\* after every step but the handle's own logout or disconnect: no sweep and
\* no event of another connection removes it.  A connection whose heartbeats
\* are never more than the timeout apart is in that case at every sweep.
C20_FreshSurvives ==
    [][\A h \in Handles :
          (/\ UsersHas(users, h)
           /\ sock[h] = "open"
           /\ Staleness(UsersGet(users, h), now) <= HEARTBEAT_TIMEOUT_MS) =>
              \/ UsersHas(users', h) /\ sock'[h] = "open"
              \/ last'.op \in {"logout", "disconnect"} /\ last'.h = h]_vars

\* A sweep has kept an entry last seen exactly the timeout ago and has
\* evicted another.
C20_Witness ==
    /\ last.op = "sweep"
    /\ Len(last.removed) = 1
    /\ \E i \in 1..Len(users) :
          /\ Staleness(users[i], now) = HEARTBEAT_TIMEOUT_MS
          /\ sock[users[i].id] = "open"

====
